---- MODULE Spec2Model ----
(***************************************************************************)
(* Model of the Quatt Home Assistant integration:                          *)
(*   - custom_components/quatt/__init__.py    (setup, host prober,         *)
(*                                             config entry migration)     *)
(*   - custom_components/quatt/quatt_cloud.py (cloud client, tokens)       *)
(*   - custom_components/quatt/config_flow.py (config flow, cloud pairing) *)
(*                                                                         *)
(* Each part is a state machine over its own variables; a specification    *)
(* of one part keeps the variables of the other parts at their idle value. *)
(***************************************************************************)
EXTENDS Integers, Sequences, FiniteSets, TLC

VARIABLES
    \* ---- __init__.py: async_setup_entry / _pick_reachable_host ----
    entry_data,      \* entry.data: [ip |-> str or None, serial |-> str or None]
    setup_pc,        \* position of async_setup_entry
    deduped,         \* the de-duplicated candidate list of the running pass
    probe_idx,       \* index in deduped of the next host to probe
    failed_hosts,    \* hosts probed in this pass that did not answer 200
    last_probe,      \* the last probe made: [host, outcome]
    picked_host,     \* what _pick_reachable_host returned
    setup_result,    \* what async_setup_entry returned
    hass_data        \* what setup left behind: coordinator, cloud client,
                     \* forwarded platforms, update listener

setup_vars == <<entry_data, setup_pc, deduped, probe_idx, failed_hosts,
                last_probe, picked_host, setup_result, hass_data>>

VARIABLES
    \* ---- __init__.py: async_migrate_entry ----
    mig_entry,       \* the config entry: version, unique_id, where the
                     \* power sensor option is kept
    mig_from,        \* the entry as it was when async_migrate_entry was called
    mig_devices,     \* device registry of the entry: device -> identifier format
    mig_pc,          \* position of async_migrate_entry
    mig_steps,       \* the migration steps run by this call, in order
    mig_result       \* what async_migrate_entry returned

mig_vars == <<mig_entry, mig_from, mig_devices, mig_pc, mig_steps, mig_result>>

VARIABLES
    \* ---- quatt_cloud.py: QuattCloud ----
    cl_id_token,      \* self._id_token (0: None or empty, n > 0: the n-th token)
    cl_refresh_token, \* self._refresh_token (0: None or empty)
    cl_installation,  \* self.installation_id
    cl_issued,        \* number of the last token issued (1: the tokens of the pairing)
    cl_op,            \* the public or low-level call that is running
    cl_pc,            \* position in that call
    cl_after_refresh, \* where _refresh_id_token returns to
    cl_inflight,      \* the request that was sent and is not yet answered
    cl_sends,         \* API requests this call has sent
    cl_refreshes,     \* token refreshes this call has started
    cl_depth,         \* how often this call has called itself again
    cl_last_status,   \* status of the last API answer of this call (0: none)
    cl_refresh_why,   \* why this call refreshed last: no token, or a 401
    cl_outcome        \* how the last call ended

cloud_vars == <<cl_id_token, cl_refresh_token, cl_installation, cl_issued, cl_op,
                cl_pc, cl_after_refresh, cl_inflight, cl_sends, cl_refreshes,
                cl_depth, cl_last_status, cl_refresh_why, cl_outcome>>

VARIABLES
    \* ---- config_flow.py: ConfigFlow (one flow) ----
    fl_step,           \* what the flow returned last to the flow manager
    fl_user_data,      \* self._user_data["cic_serial"], or None
    fl_pair_task,      \* self._pair_task: "None", or "task" (the latest task)
    fl_pair_error,     \* self._pair_error
    fl_pre_id_token,   \* self._pre_id_token
    fl_pre_refresh_token, \* self._pre_refresh_token
    fl_resolved_host,  \* self._resolved_host
    fl_last_probe,     \* the last call of ConfigFlow._probe_host: [host, outcome]
    fl_entry,          \* the data async_create_entry was called with
    fl_orphans,        \* unfinished pairing tasks the flow no longer holds
    \* ---- config_flow.py: the latest _pairing_background task ----
    task_pc,           \* its position ("none": no task yet)
    task_serial,       \* its local cic_serial
    task_id_token,     \* its local id_token
    task_inflight,     \* its request on the way, with the answer it will get
    task_calls,        \* the kinds of request it has sent
    task_ok,           \* what _poll_confirmed returned
    task_exc,          \* the exception raised inside its try block
    task_round,        \* how /me/installations answered in the poll round that runs
                       \* or has just confirmed
    task_cands,        \* _pick_reachable_host: the de-duplicated candidates
    task_idx,          \* _pick_reachable_host: the next candidate
    now,               \* loop.time(), counted from the call of _poll_confirmed
    deadline           \* _poll_confirmed: deadline

flow_vars == <<fl_step, fl_user_data, fl_pair_task, fl_pair_error, fl_pre_id_token,
               fl_pre_refresh_token, fl_resolved_host, fl_last_probe, fl_entry,
               fl_orphans>>

task_vars == <<task_pc, task_serial, task_id_token, task_inflight, task_calls,
               task_ok, task_exc, task_round, task_cands, task_idx, now, deadline>>

vars == <<setup_vars, mig_vars, cloud_vars, flow_vars, task_vars>>

\* what the actions of one part leave alone
not_setup_vars == <<mig_vars, cloud_vars, flow_vars, task_vars>>
not_mig_vars == <<setup_vars, cloud_vars, flow_vars, task_vars>>
not_cloud_vars == <<setup_vars, mig_vars, flow_vars, task_vars>>
not_flow_vars == <<setup_vars, mig_vars, cloud_vars>>

-----------------------------------------------------------------------------
(* Strings are sequences of characters.  The alphabet has a lower-case     *)
(* letter, its upper-case form, a character without case and a blank.      *)

MaxSerialLen == 3

LowerChar == "c"
UpperChar == "C"
DigitChar == "1"
SpaceChar == " "
Chars == {LowerChar, UpperChar, DigitChar, SpaceChar}

\* Python's None for an optional string: a one-element sequence whose
\* element is no character.
NoneStr == <<"None">>

\* The literal ".local" of the f-strings, kept as one symbol.
DotLocal == ".local"

RECURSIVE StringsUpTo(_)
StringsUpTo(n) ==
    IF n = 0 THEN {<<>>}
    ELSE LET shorter == StringsUpTo(n - 1)
         IN  shorter \cup {Append(s, c) : s \in {t \in shorter : Len(t) = n - 1}, c \in Chars}

\* str.upper() and str.lower(), character by character
UpperOf(ch) == IF ch = LowerChar THEN UpperChar ELSE ch
LowerOf(ch) == IF ch = UpperChar THEN LowerChar ELSE ch
Upper(s) == [i \in 1..Len(s) |-> UpperOf(s[i])]
Lower(s) == [i \in 1..Len(s) |-> LowerOf(s[i])]

\* s[:n] and s[n:]
Prefix(s, n) == SubSeq(s, 1, IF n < Len(s) THEN n ELSE Len(s))
Suffix(s, n) == SubSeq(s, n + 1, Len(s))

\* str.strip(): drop the blanks at both ends
RECURSIVE LStrip(_)
LStrip(s) == IF s # <<>> /\ Head(s) = SpaceChar THEN LStrip(Tail(s)) ELSE s
RECURSIVE RStrip(_)
RStrip(s) ==
    IF s # <<>> /\ s[Len(s)] = SpaceChar THEN RStrip(SubSeq(s, 1, Len(s) - 1)) ELSE s
Strip(s) == RStrip(LStrip(s))

\* Python truthiness of an optional string
Truthy(s) == s # NoneStr /\ s # <<>>

\* (x or "")
OrEmpty(s) == IF Truthy(s) THEN s ELSE <<>>

-----------------------------------------------------------------------------
(* HTTP: what one request can come back with.                              *)

HttpResponse(status) == [kind |-> "response", status |-> status]
ClientError == [kind |-> "client_error", status |-> 0]
TimeoutError == [kind |-> "timeout", status |-> 0]

\* Answers of the local feed http://<host>:8080/beta/feed/data.json
ProbeOutcomes == {HttpResponse(200), HttpResponse(401), ClientError, TimeoutError}

\* _probe_host: True only for a 200 answer; a ClientError or a timeout is
\* caught and gives False.
ProbeHostWrong(outcome) == outcome.kind = "response"
ProbeHost(outcome) == outcome.kind = "response" /\ outcome.status = 200

-----------------------------------------------------------------------------
(* __init__.py: _pick_reachable_host and async_setup_entry                 *)

\* cic_serial[:3].upper() + cic_serial[3:], applied only when len >= 3
UpperFirst3(s) == Upper(Prefix(s, 3)) \o Suffix(s, 3)
NormalizeSerial(s) == IF Len(s) >= 3 THEN UpperFirst3(s) ELSE s

\* [c for c in candidates if not (c in seen or seen.add(c))]
RECURSIVE DedupFrom(_, _)
DedupFrom(cands, seen) ==
    IF cands = <<>> THEN <<>>
    ELSE IF Head(cands) \in seen THEN DedupFrom(Tail(cands), seen)
         ELSE <<Head(cands)>> \o DedupFrom(Tail(cands), seen \cup {Head(cands)})
NoDedup(cands) == cands
Dedup(cands) == DedupFrom(cands, {})

\* the four names derived from a serial
SerialCandidates(s) ==
    <<s, Lower(s), Append(s, DotLocal), Append(Lower(s), DotLocal)>>

\* the candidate list of _pick_reachable_host(hass, entry), before de-dup
EntryCandidatesSwapped(data) ==
    LET explicit   == data.ip
        cic_serial == Strip(OrEmpty(data.serial))
    IN  (IF cic_serial # <<>> THEN SerialCandidates(NormalizeSerial(cic_serial)) ELSE <<>>)
        \o (IF Truthy(explicit) THEN <<explicit>> ELSE <<>>)
EntryCandidates(data) ==
    LET explicit   == data.ip
        cic_serial == Strip(OrEmpty(data.serial))
    IN  (IF Truthy(explicit) THEN <<explicit>> ELSE <<>>)
        \o (IF cic_serial # <<>> THEN SerialCandidates(NormalizeSerial(cic_serial)) ELSE <<>>)

NoProbe == [host |-> NoneStr, outcome |-> ClientError]

NoEntry == [version |-> 0, unique_id |-> NoneStr, data_power |-> FALSE, options_power |-> FALSE]

NoRequest == [to |-> "none", token |-> 0]
NoOutcome == [kind |-> "none", exc |-> "none", status |-> 0, from |-> "none"]

CloudIdle ==
    /\ cl_id_token = 0
    /\ cl_refresh_token = 0
    /\ cl_installation = NoneStr
    /\ cl_issued = 0
    /\ cl_op = "none"
    /\ cl_pc = "unused"
    /\ cl_after_refresh = "none"
    /\ cl_inflight = NoRequest
    /\ cl_sends = 0
    /\ cl_refreshes = 0
    /\ cl_depth = 0
    /\ cl_last_status = 0
    /\ cl_refresh_why = "none"
    /\ cl_outcome = NoOutcome

\* what a flow step returns: a form, the progress screen, progress done,
\* or the created entry
FlowResult(type, step_id, error) == [type |-> type, step_id |-> step_id, error |-> error]
NoFlight == [to |-> "none", resp |-> ClientError]
NoEntryData == [cic_serial |-> NoneStr, ip_address |-> NoneStr,
                pre_id_token |-> "", pre_refresh_token |-> ""]

\* the class attributes of ConfigFlow, and no task
FlowIdle ==
    /\ fl_step = FlowResult("none", "none", "none")
    /\ fl_user_data = NoneStr
    /\ fl_pair_task = "None"
    /\ fl_pair_error = "None"
    /\ fl_pre_id_token = "None"
    /\ fl_pre_refresh_token = "None"
    /\ fl_resolved_host = NoneStr
    /\ fl_last_probe = NoProbe
    /\ fl_entry = NoEntryData
    /\ fl_orphans = 0
    /\ task_pc = "none"
    /\ task_serial = NoneStr
    /\ task_id_token = "None"
    /\ task_inflight = NoFlight
    /\ task_calls = {}
    /\ task_ok = "none"
    /\ task_exc = "none"
    /\ task_round = "none"
    /\ task_cands = <<>>
    /\ task_idx = 1
    /\ now = 0
    /\ deadline = 0

MigIdle ==
    /\ mig_pc = "idle"
    /\ mig_entry = NoEntry
    /\ mig_from = NoEntry
    /\ mig_devices = <<>>
    /\ mig_steps = <<>>
    /\ mig_result = "none"

SetupIdle ==
    /\ setup_pc = "idle"
    /\ entry_data = [ip |-> NoneStr, serial |-> NoneStr, cloud_fields |-> FALSE]
    /\ deduped = <<>>
    /\ probe_idx = 1
    /\ failed_hosts = {}
    /\ last_probe = NoProbe
    /\ picked_host = NoneStr
    /\ setup_result = "none"
    /\ hass_data = {}

\* the entries setup can be handed
ExplicitHosts == {NoneStr, <<>>, <<DigitChar>>, <<LowerChar, LowerChar>>}
EntrySerials == {NoneStr} \cup StringsUpTo(MaxSerialLen)

InitSetup ==
    /\ MigIdle
    /\ CloudIdle
    /\ FlowIdle
    /\ setup_pc = "start"
    /\ entry_data \in [ip : ExplicitHosts, serial : EntrySerials, cloud_fields : BOOLEAN]
    /\ deduped = <<>>
    /\ probe_idx = 1
    /\ failed_hosts = {}
    /\ last_probe = NoProbe
    /\ picked_host = NoneStr
    /\ setup_result = "none"
    /\ hass_data = {}

\* _pick_reachable_host up to the loop: build and de-duplicate the
\* candidates; "if not deduped: return None" (no session, no probe).
PickStart ==
    /\ setup_pc = "start"
    /\ deduped' = Dedup(EntryCandidates(entry_data))
    /\ probe_idx' = 1
    /\ IF deduped' = <<>>
       THEN setup_pc' = "picked" /\ picked_host' = NoneStr
       ELSE setup_pc' = "probing" /\ UNCHANGED picked_host
    /\ UNCHANGED <<entry_data, failed_hosts, last_probe, setup_result, hass_data>>
    /\ UNCHANGED not_setup_vars

\* one turn of "for host in deduped: if await _probe_host(session, host):
\* return host"; the loop falling through returns None.
PickProbe ==
    /\ setup_pc = "probing"
    /\ probe_idx <= Len(deduped)
    /\ \E outcome \in ProbeOutcomes :
          LET host == deduped[probe_idx]
          IN  /\ last_probe' = [host |-> host, outcome |-> outcome]
              /\ IF ProbeHost(outcome)
                 THEN /\ picked_host' = host
                      /\ setup_pc' = "picked"
                      /\ UNCHANGED <<probe_idx, failed_hosts>>
                 ELSE /\ failed_hosts' = failed_hosts \cup {host}
                      /\ probe_idx' = probe_idx + 1
                      /\ IF probe_idx + 1 > Len(deduped)
                         THEN setup_pc' = "picked" /\ picked_host' = NoneStr
                         ELSE UNCHANGED <<setup_pc, picked_host>>
    /\ UNCHANGED <<entry_data, deduped, setup_result, hass_data>>
    /\ UNCHANGED not_setup_vars

\* async_setup_entry: "if not ip_or_host: return False"
SetupNoHost ==
    /\ setup_pc = "picked"
    /\ ~Truthy(picked_host)
    /\ setup_pc' = "done"
    /\ setup_result' = "False"
    /\ UNCHANGED <<entry_data, deduped, probe_idx, failed_hosts, last_probe,
                   picked_host, hass_data>>
    /\ UNCHANGED not_setup_vars

\* async_setup_entry with a host: the coordinator is stored under the entry
\* id and refreshed; a failing first refresh raises out of setup.
SetupCoordinator ==
    /\ setup_pc = "picked"
    /\ Truthy(picked_host)
    /\ hass_data' = hass_data \cup {"coordinator"}
    /\ \E refreshed \in BOOLEAN :
          IF refreshed
          THEN setup_pc' = "cloud" /\ UNCHANGED setup_result
          ELSE setup_pc' = "done" /\ setup_result' = "raised"
    /\ UNCHANGED <<entry_data, deduped, probe_idx, failed_hosts, last_probe, picked_host>>
    /\ UNCHANGED not_setup_vars

\* the cloud client (created when the pairing fields are in entry.data;
\* a failing discovery is not fatal), the platforms and the update listener
SetupFinish ==
    /\ setup_pc = "cloud"
    /\ hass_data' = hass_data
                     \cup (IF entry_data.cloud_fields THEN {"cloud"} ELSE {})
                     \cup {"platforms", "update_listener"}
    /\ setup_pc' = "done"
    /\ setup_result' = "True"
    /\ UNCHANGED <<entry_data, deduped, probe_idx, failed_hosts, last_probe, picked_host>>
    /\ UNCHANGED not_setup_vars

NextSetup ==
    \/ PickStart
    \/ PickProbe
    \/ SetupNoHost
    \/ SetupCoordinator
    \/ SetupFinish

SpecSetup == InitSetup /\ [][NextSetup]_vars

\* _pick_reachable_host has returned
PickReturned == setup_pc \in {"picked", "cloud", "done"}

Answered200(outcome) == outcome.kind = "response" /\ outcome.status = 200

\* The prober went through the list cl in order: the hosts that failed are
\* the first k of cl, a returned host is the next one of cl and answered 200,
\* and None is returned only when every host of cl failed.
ProbedInOrder(cl) ==
    /\ \E k \in 0..Len(cl) :
          /\ failed_hosts = {cl[j] : j \in 1..k}
          /\ PickReturned /\ Truthy(picked_host) =>
                \E i \in 1..Len(cl) :
                    /\ cl[i] = picked_host
                    /\ \A j \in 1..(i - 1) : cl[j] \in failed_hosts
    /\ PickReturned /\ Truthy(picked_host) =>
          /\ last_probe.host = picked_host
          /\ Answered200(last_probe.outcome)
          /\ picked_host \notin failed_hosts
    /\ PickReturned /\ ~Truthy(picked_host) =>
          /\ picked_host = NoneStr
          /\ \A i \in 1..Len(cl) : cl[i] \in failed_hosts
    /\ setup_pc = "probing" => last_probe = NoProbe \/ ~Answered200(last_probe.outcome)

\* The order as C6 words it: the serial always has its first three
\* characters upper-cased.
C6_StatedOrder(data) ==
    LET serial == Strip(OrEmpty(data.serial))
    IN  (IF Truthy(data.ip) THEN <<data.ip>> ELSE <<>>)
        \o (IF serial # <<>> THEN SerialCandidates(UpperFirst3(serial)) ELSE <<>>)

\* The order with a serial of fewer than three characters left as it is.
C6_AmendedOrder(data) ==
    LET serial == Strip(OrEmpty(data.serial))
        name   == IF Len(serial) >= 3 THEN UpperFirst3(serial) ELSE serial
    IN  (IF Truthy(data.ip) THEN <<data.ip>> ELSE <<>>)
        \o (IF serial # <<>> THEN SerialCandidates(name) ELSE <<>>)

\* C6 as stated: _pick_reachable_host tries explicit ip_address (if set),
\* the serial with its first three characters upper-cased, that serial
\* lower-cased, serial + ".local", lower-cased serial + ".local", in this
\* order, and returns the first one whose probe answers 200, None when
\* there is no candidate or none answers 200.  (Violated: a serial of one
\* or two characters is not upper-cased.)
C6_PickInStatedOrder == ProbedInOrder(C6_StatedOrder(entry_data))

\* C6, amended: the same, where the serial is upper-cased in its first three
\* characters only when it has at least three characters and is used
\* unchanged when it is shorter.
C6_PickInOrder == ProbedInOrder(C6_AmendedOrder(entry_data))

\* C6 witness: with an explicit address and a serial of three characters,
\* the explicit address and the upper-cased serial failed and the
\* lower-cased serial answered 200 and was returned.
C6_Witness ==
    /\ PickReturned
    /\ Truthy(entry_data.ip)
    /\ Truthy(entry_data.serial) /\ Len(Strip(entry_data.serial)) = 3
    /\ picked_host = Lower(UpperFirst3(Strip(entry_data.serial)))
    /\ failed_hosts = {entry_data.ip, UpperFirst3(Strip(entry_data.serial))}
    /\ Cardinality(failed_hosts) = 2

-----------------------------------------------------------------------------
(* __init__.py: async_migrate_entry and its steps                          *)

CURRENT_VERSION == 4

\* What _get_cic_hostname comes back with in _migrate_v1_to_v2: one of the
\* three client exceptions the step catches, or data["system"]["hostName"].
HostnameErrors == {"QuattApiClientAuthenticationError",
                   "QuattApiClientCommunicationError",
                   "QuattApiClientError"}
HostnameReplies ==
    [kind : HostnameErrors, name : {NoneStr}]
    \cup [kind : {"hostname"}, name : {NoneStr} \cup StringsUpTo(MaxSerialLen)]

\* (hostname_unique_id is not None) and (len(hostname_unique_id) >= 3)
HostnameValid(reply) ==
    reply.kind = "hostname" /\ reply.name # NoneStr /\ Len(reply.name) >= 3

DeviceNames == {"hub", "heatpump"}
DeviceRegistries ==
    {<<>>, [d \in {"hub"} |-> "old"], [d \in DeviceNames |-> "old"]}

InitMigrate ==
    /\ SetupIdle
    /\ CloudIdle
    /\ FlowIdle
    /\ mig_pc = "v1"
    /\ mig_entry \in [version : 1..CURRENT_VERSION, unique_id : {NoneStr},
                       data_power : BOOLEAN, options_power : {FALSE}]
    /\ mig_from = mig_entry
    /\ mig_devices \in DeviceRegistries
    /\ mig_steps = <<>>
    /\ mig_result = "none"

\* _migrate_v1_to_v2: False when the hostname cannot be fetched or is not
\* valid; otherwise the power sensor moves from data to options, the
\* unique_id becomes the hostname with its first three characters
\* upper-cased and the version becomes 2.
V1ToV2UpdatesFirst(reply) ==
    [ok |-> HostnameValid(reply), entry |-> [mig_entry EXCEPT !.version = 2]]
MigrateV1ToV2(reply) ==
    IF HostnameValid(reply)
    THEN [ok |-> TRUE,
          entry |-> [version |-> 2,
                     unique_id |-> UpperFirst3(reply.name),
                     data_power |-> FALSE,
                     options_power |-> mig_entry.options_power \/ mig_entry.data_power]]
    ELSE [ok |-> FALSE, entry |-> mig_entry]

\* "if config_entry.version == 1: if not await _migrate_v1_to_v2(...):
\* return False"
MigrateStep1 ==
    /\ mig_pc = "v1"
    /\ IF mig_entry.version = 1
       THEN \E reply \in HostnameReplies :
              LET r == MigrateV1ToV2(reply)
              IN  /\ mig_steps' = Append(mig_steps, 1)
                  /\ mig_entry' = r.entry
                  /\ IF r.ok
                     THEN mig_pc' = "v2" /\ UNCHANGED mig_result
                     ELSE mig_pc' = "done" /\ mig_result' = "False"
       ELSE mig_pc' = "v2" /\ UNCHANGED <<mig_entry, mig_steps, mig_result>>
    /\ UNCHANGED <<mig_devices, mig_from>>
    /\ UNCHANGED not_mig_vars

\* "if config_entry.version == 2: ..."; _migrate_v2_to_v3 removes every
\* device of the entry, sets version 3 and returns True.
MigrateStep2 ==
    /\ mig_pc = "v2"
    /\ IF mig_entry.version = 2
       THEN /\ mig_steps' = Append(mig_steps, 2)
            /\ mig_devices' = <<>>
            /\ mig_entry' = [mig_entry EXCEPT !.version = 3]
       ELSE UNCHANGED <<mig_entry, mig_steps, mig_devices>>
    /\ mig_pc' = "v3"
    /\ UNCHANGED <<mig_result, mig_from>>
    /\ UNCHANGED not_mig_vars

\* "if config_entry.version == 3: ..."; _migrate_v3_to_v4 rewrites the
\* identifiers of the entry's devices, sets version 4 and returns True.
MigrateStep3 ==
    /\ mig_pc = "v3"
    /\ IF mig_entry.version = 3
       THEN /\ mig_steps' = Append(mig_steps, 3)
            /\ mig_devices' = [d \in DOMAIN mig_devices |-> "new"]
            /\ mig_entry' = [mig_entry EXCEPT !.version = 4]
       ELSE UNCHANGED <<mig_entry, mig_steps, mig_devices>>
    /\ mig_pc' = "ret"
    /\ UNCHANGED <<mig_result, mig_from>>
    /\ UNCHANGED not_mig_vars

\* "return True"
MigrateReturn ==
    /\ mig_pc = "ret"
    /\ mig_pc' = "done"
    /\ mig_result' = "True"
    /\ UNCHANGED <<mig_entry, mig_steps, mig_devices, mig_from>>
    /\ UNCHANGED not_mig_vars

NextMigrate ==
    \/ MigrateStep1
    \/ MigrateStep2
    \/ MigrateStep3
    \/ MigrateReturn

SpecMigrate == InitMigrate /\ [][NextMigrate]_vars

\* the steps v -> v+1, ..., (v+n-1) -> (v+n), each once, in ascending order
ConsecutiveSteps(v, n) == [i \in 1..n |-> v + i - 1]

\* C8: async_migrate_entry runs the steps of consecutive versions in
\* ascending order, each once, from the entry's version on; it returns True
\* with the entry at version 4 (an entry already at version 4 unchanged and
\* with no step run); the version never goes below the one it started from
\* or the one a step has reached; and when a step fails the call returns
\* False, no later step has run and the version is the last one reached.
C8_MigrateInOrder ==
    LET n == Len(mig_steps)
        failed == mig_result = "False"
        reached == mig_from.version + (IF failed THEN n - 1 ELSE n)
    IN  /\ mig_pc # "idle" =>
            /\ mig_steps = ConsecutiveSteps(mig_from.version, n)
            /\ mig_entry.version = reached
            /\ mig_entry.version >= mig_from.version
            /\ mig_entry.version <= CURRENT_VERSION
            /\ failed => n >= 1 /\ mig_pc = "done"
        /\ mig_pc = "done" => mig_result \in {"True", "False"}
        /\ mig_result = "True" =>
            /\ mig_entry.version = CURRENT_VERSION
            /\ n = CURRENT_VERSION - mig_from.version
            /\ mig_from.version = CURRENT_VERSION => mig_entry = mig_from

\* C8 witness: a version 1 entry migrated through all three steps.
C8_Witness ==
    /\ mig_pc = "done"
    /\ mig_result = "True"
    /\ mig_from.version = 1
    /\ mig_steps = <<1, 2, 3>>
    /\ mig_entry.version = CURRENT_VERSION

\* C8 witness of the failing case: the first step failed on a version 1 entry.
C8_WitnessFailed ==
    /\ mig_pc = "done"
    /\ mig_result = "False"
    /\ mig_steps = <<1>>
    /\ mig_entry.version = 1

-----------------------------------------------------------------------------
(* JSON bodies of /me/installations and /me                                *)

InstActive == [id |-> "A", status |-> "active"]
InstOther == [id |-> "B", status |-> "pending"]
ItemLists == {<<>>, <<InstOther>>, <<InstOther, InstActive>>}

JsonDict(r, i, n) ==
    [type |-> "dict", result |-> r, items |-> i, installations |-> n, list |-> <<>>]
JsonList(l) ==
    [type |-> "list", result |-> <<>>, items |-> <<>>, installations |-> <<>>, list |-> l]
\* a JSON value that is neither an object nor an array
JsonScalar ==
    [type |-> "scalar", result |-> <<>>, items |-> <<>>, installations |-> <<>>, list |-> <<>>]
\* a body resp.json() cannot decode: it raises
JsonInvalid ==
    [type |-> "invalid", result |-> <<>>, items |-> <<>>, installations |-> <<>>, list |-> <<>>]

InstallationBodies ==
    {JsonDict(l, <<>>, <<>>) : l \in ItemLists}
    \cup {JsonDict(<<>>, l, <<>>) : l \in ItemLists}
    \cup {JsonDict(<<>>, <<>>, l) : l \in ItemLists}
    \cup {JsonList(l) : l \in ItemLists}
    \cup {JsonScalar, JsonInvalid}

\* Python's "a or b" on lists
PyOr(a, b) == IF a # <<>> THEN a ELSE b

\* items = js.get("result") or js.get("items") or js.get("installations") or []
\* for a dict, js itself for a list, [] otherwise
ItemsOfAnyBody(js) == <<InstOther>>
ItemsOf(js) ==
    IF js.type = "dict"
    THEN PyOr(js.result, PyOr(js.items, PyOr(js.installations, <<>>)))
    ELSE IF js.type = "list" THEN js.list ELSE <<>>

-----------------------------------------------------------------------------
(* quatt_cloud.py: QuattCloud                                              *)

MaxTokens == 3

ApiReply(status, body) == [kind |-> "response", status |-> status, body |-> body]
ApiResponses ==
    {ApiReply(200, b) : b \in InstallationBodies}
    \cup {ApiReply(s, JsonScalar) : s \in {204, 401, 500}}
    \cup {[kind |-> k, status |-> 0, body |-> JsonScalar] : k \in {"client_error", "timeout"}}

\* Answers of the token service: id_token and refresh_token each present
\* or missing in a 200 answer.
RefreshResponses ==
    [kind : {"response"}, status : {200}, id_token : BOOLEAN, refresh_token : BOOLEAN]
    \cup [kind : {"response"}, status : {400}, id_token : {FALSE}, refresh_token : {FALSE}]
    \cup [kind : {"client_error", "timeout"}, status : {0}, id_token : {FALSE}, refresh_token : {FALSE}]

Returned == [kind |-> "returned", exc |-> "none", status |-> 0, from |-> "none"]
Raised(exc, status, from) == [kind |-> "raised", exc |-> exc, status |-> status, from |-> from]

\* the exception a failed request raises out of "async with session..."
RequestError(resp, from) ==
    IF resp.kind = "response"
    THEN Raised("ClientResponseError", resp.status, from)
    ELSE IF resp.kind = "timeout" THEN Raised("TimeoutError", 0, from)
    ELSE Raised("ClientError", 0, from)

CloudOps == {"async_discover", "_q_get", "_q_post"}

\* QuattCloud.__init__: the tokens come from the entry (empty: None)
InitCloud ==
    /\ SetupIdle
    /\ MigIdle
    /\ FlowIdle
    /\ cl_id_token \in {0, 1}
    /\ cl_refresh_token \in {0, 1}
    /\ cl_installation = NoneStr
    /\ cl_issued = 1
    /\ cl_op = "none"
    /\ cl_pc = "idle"
    /\ cl_after_refresh = "none"
    /\ cl_inflight = NoRequest
    /\ cl_sends = 0
    /\ cl_refreshes = 0
    /\ cl_depth = 0
    /\ cl_last_status = 0
    /\ cl_refresh_why = "none"
    /\ cl_outcome = NoOutcome

\* a caller starts async_discover, _q_get or _q_post
CloudCall(op) ==
    /\ cl_pc = "idle"
    /\ cl_op' = op
    /\ cl_pc' = "ensure"
    /\ cl_sends' = 0
    /\ cl_refreshes' = 0
    /\ cl_depth' = 0
    /\ cl_last_status' = 0
    /\ cl_refresh_why' = "none"
    /\ cl_outcome' = NoOutcome
    /\ UNCHANGED <<cl_id_token, cl_refresh_token, cl_installation, cl_issued,
                   cl_after_refresh, cl_inflight>>
    /\ UNCHANGED not_cloud_vars

\* a variant that refreshes whenever a refresh token is held
EnsureAlwaysRefreshes ==
    /\ cl_pc = "ensure"
    /\ IF cl_refresh_token = 0
       THEN IF cl_id_token # 0
            THEN /\ cl_pc' = "send"
                 /\ UNCHANGED <<cl_outcome, cl_after_refresh>>
            ELSE /\ cl_pc' = "idle"
                 /\ cl_outcome' = Raised("RuntimeError", 0, "_ensure_token")
                 /\ UNCHANGED cl_after_refresh
       ELSE /\ cl_pc' = "refresh"
            /\ cl_after_refresh' = "send"
            /\ UNCHANGED cl_outcome
    /\ UNCHANGED <<cl_id_token, cl_refresh_token, cl_installation, cl_issued, cl_op,
                   cl_inflight, cl_sends, cl_refreshes, cl_depth, cl_last_status,
                   cl_refresh_why>>
    /\ UNCHANGED not_cloud_vars

\* _ensure_token
CloudEnsureToken ==
    /\ cl_pc = "ensure"
    /\ IF cl_id_token # 0
       THEN /\ cl_pc' = "send"
            /\ UNCHANGED <<cl_outcome, cl_after_refresh>>
       ELSE IF cl_refresh_token = 0
       THEN /\ cl_pc' = "idle"
            /\ cl_outcome' = Raised("RuntimeError", 0, "_ensure_token")
            /\ UNCHANGED cl_after_refresh
       ELSE /\ cl_pc' = "refresh"
            /\ cl_after_refresh' = "send"
            /\ UNCHANGED cl_outcome
    /\ UNCHANGED <<cl_id_token, cl_refresh_token, cl_installation, cl_issued, cl_op,
                   cl_inflight, cl_sends, cl_refreshes, cl_depth, cl_last_status,
                   cl_refresh_why>>
    /\ UNCHANGED not_cloud_vars

\* _refresh_id_token: the POST to the token service
CloudRefreshSend ==
    /\ cl_pc = "refresh"
    /\ cl_issued < MaxTokens
    /\ cl_pc' = "refresh_wait"
    /\ cl_inflight' = [to |-> "token_service", token |-> cl_refresh_token]
    /\ cl_refreshes' = cl_refreshes + 1
    /\ cl_refresh_why' = IF cl_last_status = 401 THEN "401"
                         ELSE IF cl_id_token = 0 THEN "no_token"
                         ELSE "token_held"
    /\ UNCHANGED <<cl_id_token, cl_refresh_token, cl_installation, cl_issued, cl_op,
                   cl_after_refresh, cl_sends, cl_depth, cl_last_status, cl_outcome>>
    /\ UNCHANGED not_cloud_vars

\* _refresh_id_token: the answer.  Not 200: ClientResponseError.  200:
\* _id_token = js.get("id_token"), _refresh_token = js.get("refresh_token",
\* self._refresh_token).
CloudRefreshReceive ==
    /\ cl_pc = "refresh_wait"
    /\ \E resp \in RefreshResponses :
          IF resp.kind = "response" /\ resp.status = 200
          THEN /\ cl_issued' = cl_issued + 1
               /\ cl_id_token' = IF resp.id_token THEN cl_issued + 1 ELSE 0
               /\ cl_refresh_token' =
                     IF resp.refresh_token THEN cl_issued + 1 ELSE cl_refresh_token
               /\ cl_pc' = cl_after_refresh
               /\ UNCHANGED cl_outcome
          ELSE /\ cl_pc' = "idle"
               /\ cl_outcome' = RequestError(resp, "token_service")
               /\ UNCHANGED <<cl_id_token, cl_refresh_token, cl_issued>>
    /\ cl_inflight' = NoRequest
    /\ UNCHANGED <<cl_installation, cl_op, cl_after_refresh, cl_sends, cl_refreshes,
                   cl_depth, cl_last_status, cl_refresh_why>>
    /\ UNCHANGED not_cloud_vars

\* session.get / session.post with headers=self._headers()
CloudSend ==
    /\ cl_pc = "send"
    /\ cl_pc' = "wait"
    /\ cl_inflight' = [to |-> "api", token |-> cl_id_token]
    /\ cl_sends' = cl_sends + 1
    /\ UNCHANGED <<cl_id_token, cl_refresh_token, cl_installation, cl_issued, cl_op,
                   cl_after_refresh, cl_refreshes, cl_depth, cl_last_status,
                   cl_refresh_why, cl_outcome>>
    /\ UNCHANGED not_cloud_vars

\* async_discover after the request: any status but 200 raises; no
\* installation raises; otherwise the first active installation, or the
\* first one, gives installation_id.
FirstActiveOrFirst(items) ==
    IF \E i \in 1..Len(items) : items[i].status = "active"
    THEN items[CHOOSE i \in 1..Len(items) :
                  /\ items[i].status = "active"
                  /\ \A j \in 1..(i - 1) : items[j].status # "active"]
    ELSE items[1]

DiscoverReceive(resp) ==
    /\ cl_pc' = "idle"
    /\ IF resp.kind # "response" \/ resp.status # 200
       THEN cl_outcome' = RequestError(resp, "api") /\ UNCHANGED cl_installation
       ELSE IF resp.body.type = "invalid"
       THEN cl_outcome' = Raised("JSONDecodeError", 0, "api") /\ UNCHANGED cl_installation
       ELSE IF ItemsOf(resp.body) = <<>>
       THEN cl_outcome' = Raised("RuntimeError", 0, "async_discover")
            /\ UNCHANGED cl_installation
       ELSE /\ cl_installation' = <<FirstActiveOrFirst(ItemsOf(resp.body)).id>>
            /\ cl_outcome' = Returned
    /\ UNCHANGED <<cl_after_refresh, cl_depth>>

\* _q_get / _q_post after the request: a 401 with a refresh token held
\* refreshes and calls the function again; otherwise a status that is not
\* accepted raises.
Retry401(resp) == resp.kind = "response" /\ resp.status = 401 /\ cl_refresh_token # 0

QueryReceive(resp, accepted) ==
    /\ IF Retry401(resp)
       THEN /\ cl_pc' = "refresh"
            /\ cl_after_refresh' = "ensure"
            /\ cl_depth' = cl_depth + 1
            /\ UNCHANGED cl_outcome
       ELSE /\ cl_pc' = "idle"
            /\ cl_outcome' =
                  IF resp.kind # "response" \/ resp.status \notin accepted
                  THEN RequestError(resp, "api")
                  ELSE IF resp.body.type = "invalid"
                  THEN Raised("JSONDecodeError", 0, "api")
                  ELSE Returned
            /\ UNCHANGED <<cl_after_refresh, cl_depth>>
    /\ UNCHANGED cl_installation

CloudReceive ==
    /\ cl_pc = "wait"
    /\ \E resp \in ApiResponses :
          /\ CASE cl_op = "async_discover" -> DiscoverReceive(resp)
               [] cl_op = "_q_get" -> QueryReceive(resp, {200})
               [] cl_op = "_q_post" -> QueryReceive(resp, {200, 204})
          /\ cl_last_status' = resp.status
    /\ cl_inflight' = NoRequest
    /\ UNCHANGED <<cl_id_token, cl_refresh_token, cl_issued, cl_op, cl_sends,
                   cl_refreshes, cl_refresh_why>>
    /\ UNCHANGED not_cloud_vars

NextCloud ==
    \/ \E op \in CloudOps : CloudCall(op)
    \/ CloudEnsureToken
    \/ CloudRefreshSend
    \/ CloudRefreshReceive
    \/ CloudSend
    \/ CloudReceive

SpecCloud == InitCloud /\ [][NextCloud]_vars

\* C4 as stated: one call of _q_get or _q_post refreshes the token at most
\* once after a 401 and re-sends the request at most once; a second 401
\* ends the call.  (Violated: after the refresh the function calls itself,
\* and that call handles a 401 in the same way again.)
C4_RetryAtMostOnce ==
    cl_op \in {"_q_get", "_q_post"} => cl_depth <= 1 /\ cl_sends <= 2

\* C5 as stated: a 401 answer to a request of async_discover, _q_get or
\* _q_post while a refresh token is held is never raised to the caller (the
\* token is refreshed and the request sent again), and no refresh is made
\* for a request that got no 401 and had an access token.  (Violated:
\* async_discover raises on every status but 200.)
C5_RefreshOn401 ==
    /\ ~(/\ cl_outcome.kind = "raised"
         /\ cl_outcome.from = "api"
         /\ cl_outcome.status = 401
         /\ cl_refresh_token # 0)
    /\ cl_refresh_why # "token_held"

-----------------------------------------------------------------------------
(* config_flow.py: the steps of ConfigFlow.  The flow manager calls the    *)
(* step the flow named in its last result: the form's step with the        *)
(* user's input, the progress step again (at any time, and when the task   *)
(* has finished), the step after progress_done.                            *)

\* what a user can type into the serial form and into the host form
SerialInputs == {<<SpaceChar>>, <<LowerChar, DigitChar, LowerChar>>, <<SpaceChar, DigitChar>>}
HostInputs == {<<SpaceChar>>, <<DigitChar>>, <<UpperChar, DigitChar, SpaceChar>>}

TaskUnfinished == task_pc \notin {"none", "done"}

\* self.hass.async_create_task(self._pairing_background()): a new task,
\* at the top of _pairing_background
NewTask(cic_serial) ==
    /\ task_pc' = "start"
    /\ task_serial' = cic_serial
    /\ task_id_token' = "None"
    /\ task_inflight' = NoFlight
    /\ task_calls' = {}
    /\ task_ok' = "none"
    /\ task_exc' = "none"
    /\ task_round' = "none"
    /\ task_cands' = <<>>
    /\ task_idx' = 1
    /\ now' = 0
    /\ deadline' = 0

\* self._pair_task = None
DropTask ==
    /\ fl_pair_task' = "None"
    /\ fl_orphans' = fl_orphans + (IF fl_pair_task = "task" /\ TaskUnfinished THEN 1 ELSE 0)

\* "if self._pair_task is None:" of async_step_pair
StartTaskAlways == TRUE
StartTaskNeeded == fl_pair_task = "None"

\* async_step_pair, with self._user_data as it is when the step runs
StepPair(user_data) ==
    IF user_data = NoneStr
    THEN /\ fl_step' = FlowResult("form", "user", "none")
         /\ UNCHANGED <<fl_pair_task, fl_orphans, task_vars>>
    ELSE IF fl_pair_task # "None" /\ task_pc = "done"
    THEN /\ fl_step' = FlowResult("progress_done", "host", "none")
         /\ UNCHANGED <<fl_pair_task, fl_orphans, task_vars>>
    ELSE /\ IF StartTaskNeeded
            THEN /\ fl_pair_task' = "task"
                 /\ fl_orphans' = fl_orphans + (IF TaskUnfinished THEN 1 ELSE 0)
                 /\ NewTask(user_data)
            ELSE UNCHANGED <<fl_pair_task, fl_orphans, task_vars>>
         /\ fl_step' = FlowResult("progress", "pair", "none")

\* async_step_user
StepUser(user_input) ==
    IF user_input = NoneStr
    THEN /\ fl_step' = FlowResult("form", "user", "none")
         /\ UNCHANGED <<fl_user_data, fl_pair_task, fl_orphans, task_vars>>
    ELSE LET cic_serial == Strip(OrEmpty(user_input))
         IN  IF cic_serial = <<>>
             THEN /\ fl_step' = FlowResult("form", "user", "required")
                  /\ UNCHANGED <<fl_user_data, fl_pair_task, fl_orphans, task_vars>>
             ELSE /\ fl_user_data' = cic_serial
                  /\ StepPair(cic_serial)

\* async_step_create, with self._resolved_host as it is when the step runs
StepCreate(resolved_host) ==
    IF fl_pair_error # "None"
    THEN /\ DropTask
         /\ fl_step' = FlowResult("form", "user", fl_pair_error)
         /\ UNCHANGED fl_entry
    ELSE /\ fl_entry' = [cic_serial |-> fl_user_data,
                         ip_address |-> IF Truthy(resolved_host) THEN resolved_host ELSE NoneStr,
                         pre_id_token |-> IF fl_pre_id_token = "None" THEN "" ELSE fl_pre_id_token,
                         pre_refresh_token |->
                             IF fl_pre_refresh_token = "None" THEN "" ELSE fl_pre_refresh_token]
         /\ fl_step' = FlowResult("create_entry", "none", "none")
         /\ UNCHANGED <<fl_pair_task, fl_orphans>>

\* ConfigFlow._probe_host: True only for a 200 answer; a ClientError or a
\* timeout is caught and gives False
FlowProbeAnyAnswer(outcome) == outcome.kind = "response"
FlowProbeAlwaysTrue(outcome) == TRUE
FlowProbeHost(outcome) == outcome.kind = "response" /\ outcome.status = 200

\* async_step_host
StepHost(user_input) ==
    IF fl_pair_error # "None"
    THEN /\ DropTask
         /\ fl_step' = FlowResult("form", "user", fl_pair_error)
         /\ UNCHANGED <<fl_resolved_host, fl_last_probe, fl_entry>>
    ELSE IF Truthy(fl_resolved_host)
    THEN StepCreate(fl_resolved_host) /\ UNCHANGED <<fl_resolved_host, fl_last_probe>>
    ELSE IF user_input = NoneStr
    THEN /\ fl_step' = FlowResult("form", "host", "none")
         /\ UNCHANGED <<fl_resolved_host, fl_last_probe, fl_entry, fl_pair_task, fl_orphans>>
    ELSE LET host == Strip(OrEmpty(user_input))
         IN  IF host = <<>>
             THEN /\ fl_step' = FlowResult("form", "host", "required")
                  /\ UNCHANGED <<fl_resolved_host, fl_last_probe, fl_entry, fl_pair_task,
                                 fl_orphans>>
             ELSE \E outcome \in ProbeOutcomes :
                  /\ fl_last_probe' = [host |-> host, outcome |-> outcome]
                  /\ IF ~FlowProbeHost(outcome)
                     THEN /\ fl_step' = FlowResult("form", "host", "cannot_connect")
                          /\ UNCHANGED <<fl_resolved_host, fl_entry, fl_pair_task,
                                         fl_orphans>>
                     ELSE /\ fl_resolved_host' = host
                          /\ StepCreate(host)

\* the flow manager starts the flow: async_step_user(None)
FlowInit ==
    /\ fl_step.type = "none"
    /\ StepUser(NoneStr)
    /\ UNCHANGED <<fl_pair_error, fl_pre_id_token, fl_pre_refresh_token,
                   fl_resolved_host, fl_last_probe, fl_entry>>
    /\ UNCHANGED not_flow_vars

\* the user submits the serial form
FlowSubmitUser ==
    /\ fl_step.type = "form" /\ fl_step.step_id = "user"
    /\ \E user_input \in SerialInputs : StepUser(user_input)
    /\ UNCHANGED <<fl_pair_error, fl_pre_id_token, fl_pre_refresh_token,
                   fl_resolved_host, fl_last_probe, fl_entry>>
    /\ UNCHANGED not_flow_vars

\* the progress step is called again: by the frontend, or when the
\* progress task has finished
FlowConfigurePair ==
    /\ fl_step.type = "progress" /\ fl_step.step_id = "pair"
    /\ StepPair(fl_user_data)
    /\ UNCHANGED <<fl_user_data, fl_pair_error, fl_pre_id_token, fl_pre_refresh_token,
                   fl_resolved_host, fl_last_probe, fl_entry>>
    /\ UNCHANGED not_flow_vars

\* after progress_done the step it names is called: async_step_host(None)
FlowProgressDone ==
    /\ fl_step.type = "progress_done" /\ fl_step.step_id = "host"
    /\ StepHost(NoneStr)
    /\ UNCHANGED <<fl_user_data, fl_pair_error, fl_pre_id_token, fl_pre_refresh_token,
                   task_vars>>
    /\ UNCHANGED not_flow_vars

\* the user submits the host form
FlowSubmitHost ==
    /\ fl_step.type = "form" /\ fl_step.step_id = "host"
    /\ \E user_input \in HostInputs : StepHost(user_input)
    /\ UNCHANGED <<fl_user_data, fl_pair_error, fl_pre_id_token, fl_pre_refresh_token,
                   task_vars>>
    /\ UNCHANGED not_flow_vars

-----------------------------------------------------------------------------
(* config_flow.py: _pairing_background.  One action runs the task from one *)
(* await to the next: it takes the answer of the request on the way and    *)
(* goes on to the next request, to the sleep, or to the end of the task.   *)

PAIR_TIMEOUT_S == 120
POLL_INTERVAL_S == 2
REQUEST_TIMEOUT_S == 20

Reply(status, body) == [kind |-> "response", status |-> status, body |-> body]
NoReply(kind) == [kind |-> kind, status |-> 0, body |-> JsonScalar]
RequestFailures == {NoReply("client_error"), NoReply("timeout")}

\* signupNewUser: the JSON object with idToken and refreshToken, each
\* present or missing, a body that does not decode, or a body whose content
\* type is not JSON
SignupBodies ==
    [type : {"dict"}, idToken : {"None", "tok"}, refreshToken : {"None", "rtok"}]
    \cup [type : {"invalid", "not_json"}, idToken : {"None"}, refreshToken : {"None"}]
SignupResponses ==
    {Reply(200, b) : b \in SignupBodies} \cup {Reply(400, JsonScalar)} \cup RequestFailures
PutMeResponses == {Reply(s, JsonScalar) : s \in {200, 204, 500}} \cup RequestFailures
RequestPairResponses == {Reply(s, JsonScalar) : s \in {200, 204, 404}} \cup RequestFailures
InstallationsResponses ==
    {Reply(200, b) : b \in InstallationBodies} \cup {Reply(500, JsonScalar)} \cup RequestFailures
\* /me: an object whose cic is missing, empty or set; another value; no JSON
MeBodies ==
    [type : {"dict"}, cic : {NoneStr, <<>>, <<UpperChar>>}]
    \cup [type : {"scalar", "invalid"}, cic : {NoneStr}]
MeResponses == {Reply(200, b) : b \in MeBodies} \cup {Reply(500, JsonScalar)} \cup RequestFailures

\* how long an answer takes: a timeout takes the request timeout, any other
\* answer at most that (at once, or just in time)
ReplyDelays(resp) ==
    IF resp.kind = "timeout" THEN {REQUEST_TIMEOUT_S} ELSE {0, REQUEST_TIMEOUT_S}

\* the exception "async with session.request(...)" raises when no answer comes
RequestExc(resp) == IF resp.kind = "timeout" THEN "TimeoutError" ELSE "ClientError"

\* except (aiohttp.ClientError, asyncio.TimeoutError): "connection";
\* except Exception: "unknown"
\* (ClientResponseError and ContentTypeError are subclasses of ClientError)
NetworkExceptions == {"ClientError", "ClientResponseError", "ContentTypeError", "TimeoutError"}
PairErrorAlwaysUnknown(exc) == "unknown"
PairErrorFor(exc) == IF exc \in NetworkExceptions THEN "connection" ELSE "unknown"

\* _signup_anonymous: the exception it raises, "none" when it returns
SignupExc(resp) ==
    IF resp.kind # "response" THEN RequestExc(resp)
    ELSE IF resp.status # 200 THEN "ClientResponseError"
    ELSE IF resp.body.type = "not_json" THEN "ContentTypeError"
    ELSE IF resp.body.type = "invalid" THEN "JSONDecodeError"
    ELSE IF resp.body.idToken = "None" \/ resp.body.refreshToken = "None" THEN "RuntimeError"
    ELSE "none"

\* _put_me: a status outside (200, 204) is only logged
PutMeRaisesOnStatus(resp) ==
    IF resp.kind # "response" THEN RequestExc(resp)
    ELSE IF resp.status \notin {200, 204} THEN "ClientResponseError"
    ELSE "none"
PutMeExc(resp) == IF resp.kind # "response" THEN RequestExc(resp) ELSE "none"

\* _post_request_pair: a status outside (200, 204) raises
RequestPairNeverRaises(resp) == "none"
RequestPairExc(resp) ==
    IF resp.kind # "response" THEN RequestExc(resp)
    ELSE IF resp.status \notin {200, 204} THEN "ClientResponseError"
    ELSE "none"

\* a variant in which an exception of a poll request is not caught
PollFailureRaises(resp) ==
    IF resp.kind = "response" THEN "none" ELSE RequestExc(resp)
\* _poll_confirmed: "except Exception: pass" around each request
PollRequestExc(resp) == "none"

\* _poll_confirmed: does this answer of /me/installations confirm?  An
\* exception (no answer, no JSON) is passed over.
InstallationsConfirm(resp) ==
    /\ resp.kind = "response"
    /\ resp.status = 200
    /\ resp.body.type # "invalid"
    /\ ItemsOf(resp.body) # <<>>

\* what a round of _poll_confirmed got from /me/installations: an exception
\* or a status other than 200 ("failed"), no installation ("empty"), or the
\* confirmation
RoundNote(resp) ==
    IF InstallationsConfirm(resp) THEN "confirmed"
    ELSE IF resp.kind # "response" \/ resp.status # 200 \/ resp.body.type = "invalid"
    THEN "failed"
    ELSE "empty"

\* _poll_confirmed: does this answer of /me confirm?
MeConfirmsAnyDict(resp) == resp.kind = "response" /\ resp.body.type = "dict"
MeConfirms(resp) ==
    /\ resp.kind = "response"
    /\ resp.status = 200
    /\ resp.body.type = "dict"
    /\ Truthy(resp.body.cic)

\* "while loop.time() < deadline"
RoundAllowedAlways(t, d) == TRUE
RoundAllowed(t, d) == t < d

\* the candidates of ConfigFlow._pick_reachable_host, de-duplicated
FlowCandidates(cic_serial) ==
    Dedup(SerialCandidates(NormalizeSerial(Strip(cic_serial))))

\* the task leaves the try block by an exception: the except clauses
TaskFail(exc) ==
    /\ task_exc' = exc
    /\ fl_pair_error' = PairErrorFor(exc)
    /\ task_pc' = "done"
    /\ task_inflight' = NoFlight
    /\ UNCHANGED <<task_calls, task_ok, task_cands, task_idx, fl_resolved_host>>

\* the task sends its next request and waits for the answer
TaskRequest(step, responses) ==
    /\ task_pc' = step
    /\ \E resp \in responses : task_inflight' = [to |-> step, resp |-> resp]
    /\ task_calls' = task_calls \cup {step}

\* ... with nothing else changed by the step
TaskContinue(step, responses) ==
    /\ TaskRequest(step, responses)
    /\ UNCHANGED <<task_ok, task_exc, task_cands, task_idx, fl_pair_error, fl_resolved_host>>

\* a variant that records only failures and never clears _pair_error
PollTrueKeepsError ==
    /\ task_ok' = "True"
    /\ UNCHANGED fl_pair_error
    /\ task_cands' = FlowCandidates(task_serial)
    /\ task_idx' = 1
    /\ task_inflight' = NoFlight
    /\ IF task_cands' = <<>>
       THEN /\ task_pc' = "done"
            /\ fl_resolved_host' = NoneStr
            /\ UNCHANGED task_calls
       ELSE /\ task_pc' = "resolve"
            /\ task_calls' = task_calls \cup {"probe"}
            /\ UNCHANGED fl_resolved_host
    /\ UNCHANGED task_exc

\* _poll_confirmed returned True: "self._pair_error = None", then
\* _pick_reachable_host up to its first probe
PollReturnsTrue ==
    /\ task_ok' = "True"
    /\ fl_pair_error' = "None"
    /\ task_cands' = FlowCandidates(task_serial)
    /\ task_idx' = 1
    /\ task_inflight' = NoFlight
    /\ IF task_cands' = <<>>
       THEN /\ task_pc' = "done"
            /\ fl_resolved_host' = NoneStr
            /\ UNCHANGED task_calls
       ELSE /\ task_pc' = "resolve"
            /\ task_calls' = task_calls \cup {"probe"}
            /\ UNCHANGED fl_resolved_host
    /\ UNCHANGED task_exc

\* a variant that forgets to record "pair_failed"
PollFalseLeavesNoError ==
    /\ task_ok' = "False"
    /\ fl_pair_error' = "None"
    /\ task_pc' = "done"
    /\ task_inflight' = NoFlight
    /\ UNCHANGED <<task_calls, task_exc, task_cands, task_idx, fl_resolved_host>>

\* _poll_confirmed returned False: "self._pair_error = 'pair_failed'", and
\* the task ends
PollReturnsFalse ==
    /\ task_ok' = "False"
    /\ fl_pair_error' = "pair_failed"
    /\ task_pc' = "done"
    /\ task_inflight' = NoFlight
    /\ UNCHANGED <<task_calls, task_exc, task_cands, task_idx, fl_resolved_host>>

\* the loop test of _poll_confirmed at time t with deadline d: a new round
\* starts with GET /me/installations, or the loop ends
PollRound(t, d) ==
    IF RoundAllowed(t, d)
    THEN TaskContinue("poll_inst", InstallationsResponses)
    ELSE PollReturnsFalse

\* what no step of the task touches
TaskFrame ==
    /\ UNCHANGED <<fl_step, fl_user_data, fl_pair_task, fl_entry, fl_orphans>>
    /\ UNCHANGED task_serial
    /\ UNCHANGED not_flow_vars

\* the task starts to run: up to the request of _signup_anonymous
TaskBegin ==
    /\ task_pc = "start"
    /\ TaskContinue("signup", SignupResponses)
    /\ UNCHANGED <<task_id_token, now, deadline, fl_pre_id_token, fl_pre_refresh_token>>
    /\ UNCHANGED <<fl_last_probe, task_round>>
    /\ TaskFrame

\* the answer of signupNewUser; with both tokens the task keeps them and
\* sends PUT /me
TaskSignupReturn ==
    /\ task_pc = "signup"
    /\ LET resp == task_inflight.resp
           exc  == SignupExc(resp)
       IN  IF exc # "none"
           THEN /\ TaskFail(exc)
                /\ UNCHANGED <<task_id_token, fl_pre_id_token, fl_pre_refresh_token>>
           ELSE /\ task_id_token' = resp.body.idToken
                /\ fl_pre_id_token' = resp.body.idToken
                /\ fl_pre_refresh_token' = resp.body.refreshToken
                /\ TaskContinue("put_me", PutMeResponses)
    /\ UNCHANGED <<now, deadline>>
    /\ UNCHANGED <<fl_last_probe, task_round>>
    /\ TaskFrame

\* the answer of PUT /me; then POST requestPair
TaskPutMeReturn ==
    /\ task_pc = "put_me"
    /\ LET exc == PutMeExc(task_inflight.resp)
       IN  IF exc # "none"
           THEN TaskFail(exc)
           ELSE TaskContinue("request_pair", RequestPairResponses)
    /\ UNCHANGED <<task_id_token, now, deadline, fl_pre_id_token, fl_pre_refresh_token>>
    /\ UNCHANGED <<fl_last_probe, task_round>>
    /\ TaskFrame

\* the answer of POST requestPair; when accepted, _poll_confirmed starts:
\* the deadline, the first loop test and the first round
TaskRequestPairReturn ==
    /\ task_pc = "request_pair"
    /\ LET exc == RequestPairExc(task_inflight.resp)
       IN  IF exc # "none"
           THEN TaskFail(exc) /\ UNCHANGED deadline
           ELSE /\ deadline' = now + PAIR_TIMEOUT_S
                /\ PollRound(now, deadline')
    /\ UNCHANGED <<task_id_token, now, fl_pre_id_token, fl_pre_refresh_token>>
    /\ UNCHANGED <<fl_last_probe, task_round>>
    /\ TaskFrame

\* the answer of GET /me/installations after some time: it confirms, or
\* GET /me is sent
TaskPollInstallationsReturn ==
    /\ task_pc = "poll_inst"
    /\ \E delay \in ReplyDelays(task_inflight.resp) : now' = now + delay
    /\ IF PollRequestExc(task_inflight.resp) # "none"
       THEN TaskFail(PollRequestExc(task_inflight.resp))
       ELSE IF InstallationsConfirm(task_inflight.resp)
       THEN PollReturnsTrue
       ELSE TaskContinue("poll_me", MeResponses)
    /\ task_round' = RoundNote(task_inflight.resp)
    /\ UNCHANGED <<task_id_token, deadline, fl_pre_id_token, fl_pre_refresh_token>>
    /\ UNCHANGED fl_last_probe
    /\ TaskFrame

\* the answer of GET /me after some time: it confirms, or the task sleeps
TaskPollMeReturn ==
    /\ task_pc = "poll_me"
    /\ \E delay \in ReplyDelays(task_inflight.resp) : now' = now + delay
    /\ IF PollRequestExc(task_inflight.resp) # "none"
       THEN TaskFail(PollRequestExc(task_inflight.resp)) /\ task_round' = "none"
       ELSE IF MeConfirms(task_inflight.resp)
       THEN PollReturnsTrue /\ UNCHANGED task_round
       ELSE /\ task_pc' = "poll_sleep"
            /\ task_inflight' = NoFlight
            /\ task_round' = "none"
            /\ UNCHANGED <<task_calls, task_ok, task_exc, task_cands, task_idx,
                           fl_pair_error, fl_resolved_host>>
    /\ UNCHANGED <<task_id_token, deadline, fl_pre_id_token, fl_pre_refresh_token>>
    /\ UNCHANGED fl_last_probe
    /\ TaskFrame

\* asyncio.sleep(interval_s) is over: the loop test and the next round
TaskPollWake ==
    /\ task_pc = "poll_sleep"
    /\ now' = now + POLL_INTERVAL_S
    /\ PollRound(now', deadline)
    /\ UNCHANGED <<task_id_token, deadline, fl_pre_id_token, fl_pre_refresh_token>>
    /\ UNCHANGED <<fl_last_probe, task_round>>
    /\ TaskFrame

\* ConfigFlow._pick_reachable_host: the answer of one probe; the host is
\* returned, the next candidate is probed, or None is returned; the task
\* stores what is returned in _resolved_host and ends
TaskProbeReturn ==
    /\ task_pc = "resolve"
    /\ \E outcome \in ProbeOutcomes :
          /\ fl_last_probe' = [host |-> task_cands[task_idx], outcome |-> outcome]
          /\ IF FlowProbeHost(outcome)
             THEN /\ fl_resolved_host' = task_cands[task_idx]
                  /\ task_pc' = "done"
                  /\ UNCHANGED task_idx
             ELSE /\ task_idx' = task_idx + 1
                  /\ IF task_idx + 1 > Len(task_cands)
                     THEN task_pc' = "done" /\ fl_resolved_host' = NoneStr
                     ELSE UNCHANGED <<task_pc, fl_resolved_host>>
    /\ task_round' = "none"
    /\ UNCHANGED <<task_inflight, task_calls, task_ok, task_exc, task_cands, fl_pair_error>>
    /\ UNCHANGED <<task_id_token, now, deadline, fl_pre_id_token, fl_pre_refresh_token>>
    /\ TaskFrame

TaskNext ==
    \/ TaskBegin
    \/ TaskSignupReturn
    \/ TaskPutMeReturn
    \/ TaskRequestPairReturn
    \/ TaskPollInstallationsReturn
    \/ TaskPollMeReturn
    \/ TaskPollWake
    \/ TaskProbeReturn

InitFlow ==
    /\ SetupIdle
    /\ MigIdle
    /\ CloudIdle
    /\ FlowIdle

NextFlow ==
    \/ FlowInit
    \/ FlowSubmitUser
    \/ FlowConfigurePair
    \/ FlowProgressDone
    \/ FlowSubmitHost
    \/ TaskBegin
    \/ TaskSignupReturn
    \/ TaskPutMeReturn
    \/ TaskRequestPairReturn
    \/ TaskPollInstallationsReturn
    \/ TaskPollMeReturn
    \/ TaskPollWake
    \/ TaskProbeReturn

SpecFlow == InitFlow /\ [][NextFlow]_vars

\* The event loop runs a task that can run: every request of the task is
\* answered or times out, and every sleep ends.
FairSpecFlow == SpecFlow /\ WF_vars(TaskNext)

-----------------------------------------------------------------------------
(* Claims about the config flow and the pairing task                       *)

InPoll == task_pc \in {"poll_inst", "poll_me", "poll_sleep"}

\* a request of kind step goes on the way in this step
Sends(step) == task_inflight'.to = step /\ task_inflight.to # step
\* the first request of the polling loop goes on the way in this step
PollingStarts == Sends("poll_inst") /\ "poll_inst" \notin task_calls
\* the first probe of the host resolution goes on the way in this step
ResolutionStarts == "probe" \in task_calls' /\ "probe" \notin task_calls

\* an answer that came back with an HTTP status
Answered(resp) == resp.kind = "response"

C1_CallsFormChain ==
    /\ "put_me" \in task_calls => "signup" \in task_calls
    /\ "request_pair" \in task_calls => "put_me" \in task_calls
    /\ "poll_inst" \in task_calls =>
          /\ "request_pair" \in task_calls
          /\ task_id_token # "None"
          /\ fl_pre_id_token # "None" /\ fl_pre_refresh_token # "None"
    /\ "poll_me" \in task_calls => "poll_inst" \in task_calls
    /\ "probe" \in task_calls => "poll_inst" \in task_calls /\ task_ok = "True"
    /\ task_inflight.to # "none" => task_inflight.to = task_pc

C1_StepAfterStep ==
    /\ Sends("signup") => task_pc = "start" /\ task_calls = {} /\ task_inflight = NoFlight
    /\ Sends("put_me") =>
          /\ task_inflight.to = "signup"
          /\ Answered(task_inflight.resp) /\ task_inflight.resp.status = 200
          /\ task_inflight.resp.body.idToken # "None"
          /\ task_inflight.resp.body.refreshToken # "None"
    /\ Sends("request_pair") =>
          task_inflight.to = "put_me" /\ Answered(task_inflight.resp)
    /\ PollingStarts =>
          /\ task_inflight.to = "request_pair"
          /\ Answered(task_inflight.resp) /\ task_inflight.resp.status \in {200, 204}
    /\ ResolutionStarts =>
          /\ task_inflight.to \in {"poll_inst", "poll_me"}
          /\ task_ok' = "True"

\* C1: in every run of the pairing task the cloud calls happen in the order
\* signup, PUT /me, POST requestPair, polling: a request is sent only when
\* the one before it has been answered, PUT /me only after signup returned
\* both tokens, polling only after the pairing request was accepted, and
\* the local host resolution only after polling reported confirmation.
C1_PairingInOrder == []C1_CallsFormChain /\ [][C1_StepAfterStep]_vars

\* C1 witness: a task that went through every step, /me and a probe included.
C1_Witness ==
    /\ task_pc = "done"
    /\ task_calls = {"signup", "put_me", "request_pair", "poll_inst", "poll_me", "probe"}
    /\ Truthy(fl_resolved_host)

C2_PollBounded ==
    /\ InPoll => deadline = PAIR_TIMEOUT_S
    /\ task_pc = "poll_inst" => now < deadline
    /\ task_ok = "False" => now >= deadline /\ task_pc = "done"

C2_RoundsAndEnd ==
    /\ Sends("poll_inst") => now' < deadline'
    /\ task_ok' = "False" /\ task_ok # "False" => now' >= deadline' /\ task_pc = "poll_sleep"
    /\ task_pc = "poll_sleep" /\ task_pc' # "poll_sleep" => now' = now + POLL_INTERVAL_S
    /\ InPoll /\ task_ok' = "True" => task_pc \in {"poll_inst", "poll_me"} /\ ~InPoll'

\* C2: _poll_confirmed always terminates when requests are answered or time
\* out and sleeps end: a round starts only before the deadline of 120 s,
\* rounds are 2 s of sleep apart, the loop ends with True in the round that
\* sees the confirmation and with False at the first loop test at or after
\* the deadline.
C2_PollTerminates ==
    /\ InPoll ~> ~InPoll
    /\ []C2_PollBounded
    /\ [][C2_RoundsAndEnd]_vars

\* C2 witness: polling ended with False after a last round that started
\* one second before the deadline.
C2_Witness ==
    /\ task_pc = "done"
    /\ task_ok = "False"
    /\ now > deadline + REQUEST_TIMEOUT_S

\* an installation record in an answer of /me/installations, of /me
C3_InstallationListed(resp) ==
    /\ Answered(resp) /\ resp.status = 200
    /\ \/ resp.body.type = "list" /\ resp.body.list # <<>>
       \/ /\ resp.body.type = "dict"
          /\ \/ resp.body.result # <<>>
             \/ resp.body.items # <<>>
             \/ resp.body.installations # <<>>
C3_CicSet(resp) ==
    /\ Answered(resp) /\ resp.status = 200
    /\ resp.body.type = "dict"
    /\ resp.body.cic \notin {NoneStr, <<>>}

C3_ConfirmedByRecord ==
    /\ task_ok' = "True" /\ task_ok # "True" =>
          \/ task_inflight.to = "poll_inst" /\ C3_InstallationListed(task_inflight.resp)
          \/ task_inflight.to = "poll_me" /\ C3_CicSet(task_inflight.resp)
    /\ Sends("poll_me") =>
          task_inflight.to = "poll_inst" /\ ~C3_InstallationListed(task_inflight.resp)
    /\ Sends("poll_inst") => task_pc \in {"request_pair", "poll_sleep"}

\* C3: polling returns True only in a round in which /me/installations
\* answered 200 with a non-empty installation list or /me answered 200 with
\* a non-empty cic; a round asks /me/installations first, and /me only
\* when /me/installations did not confirm.
C3_ConfirmOnlyByRecord == [][C3_ConfirmedByRecord]_vars

\* C3 witness: polling confirmed by /me in a later round.
C3_Witness ==
    /\ task_ok = "True"
    /\ "poll_me" \in task_calls
    /\ now > POLL_INTERVAL_S

C7_OneTask ==
    /\ fl_orphans = 0
    /\ TaskUnfinished => fl_pair_task = "task"

C7_CreateAndDrop ==
    /\ task_pc' = "start" /\ task_pc # "start" =>
          fl_pair_task = "None" /\ ~TaskUnfinished /\ fl_pair_task' = "task"
    /\ fl_pair_task = "task" /\ fl_pair_task' = "None" => task_pc = "done"

\* C7: at most one pairing task of the flow is unfinished at any time: a
\* task is created only when none is held, and the held task is dropped
\* only after it has finished.
C7_SingleTask == []C7_OneTask /\ [][C7_CreateAndDrop]_vars

\* C7 witness: after a failed attempt a second task runs, and the pair step
\* is called while it polls.
C7_Witness ==
    /\ task_pc = "poll_sleep"
    /\ fl_pair_task = "task"
    /\ fl_pair_error = "connection"
    /\ fl_step.type = "progress"

\* C9: async_create_entry is called only when the latest pairing task has
\* finished, its polling returned True and _pair_error is empty.
C9_EntryOnlyAfterPairing ==
    /\ fl_step.type = "create_entry" =>
          /\ task_pc = "done"
          /\ task_ok = "True"
          /\ fl_pair_error = "None"
          /\ fl_orphans = 0
    /\ fl_entry # NoEntryData => fl_step.type = "create_entry"

\* C9 witness: an entry created by a second attempt, after a first one failed.
C9_Witness ==
    /\ fl_step.type = "create_entry"
    /\ fl_entry.cic_serial = <<DigitChar>>
    /\ fl_entry.ip_address = <<DigitChar, DotLocal>>

C10_OutcomeRecorded ==
    task_pc = "done" =>
        /\ fl_pair_error = "None" <=> task_ok = "True"
        /\ fl_pair_error = "pair_failed" <=> task_ok = "False"
        /\ fl_pair_error = "pair_failed" => now >= deadline /\ task_exc = "none"
        /\ fl_pair_error = "connection" <=> task_exc \in NetworkExceptions
        /\ fl_pair_error = "unknown" <=> task_exc \notin (NetworkExceptions \cup {"none"})
        /\ task_exc # "none" => task_ok = "none"

C10_FailedStepRecorded ==
    LET resp == task_inflight.resp
    IN  /\ task_pc = "signup" /\ task_pc' # "signup" =>
              /\ ~Answered(resp) \/ resp.status # 200 =>
                    task_pc' = "done" /\ fl_pair_error' = "connection"
              /\ /\ Answered(resp) /\ resp.status = 200 /\ resp.body.type = "dict"
                 /\ resp.body.idToken = "None" \/ resp.body.refreshToken = "None"
                 => task_pc' = "done" /\ fl_pair_error' = "unknown"
        /\ task_pc = "put_me" /\ task_pc' # "put_me" /\ ~Answered(resp) =>
              task_pc' = "done" /\ fl_pair_error' = "connection"
        /\ /\ task_pc = "request_pair" /\ task_pc' # "request_pair"
           /\ ~Answered(resp) \/ resp.status \notin {200, 204}
           => task_pc' = "done" /\ fl_pair_error' = "connection"

\* C10: the pairing task catches every exception of a failed step and
\* records its outcome before it finishes: "pair_failed" when polling
\* reached the deadline, "connection" for a network error or timeout (a
\* signup answer that is not 200 and a rejected pairing request included),
\* "unknown" for any other exception (a signup answer without tokens
\* included), and empty exactly when polling confirmed.
C10_OutcomeAlwaysRecorded == []C10_OutcomeRecorded /\ [][C10_FailedStepRecorded]_vars

\* C10 witness: a task that ended because signup returned no tokens.
C10_Witness ==
    /\ task_pc = "done"
    /\ task_exc = "RuntimeError"
    /\ fl_pair_error = "unknown"
    /\ task_calls = {"signup"}

\* the outcome of the latest pairing task, from how it ended
C11_LatestOutcome ==
    IF task_ok = "True" THEN "None"
    ELSE IF task_ok = "False" THEN "pair_failed"
    ELSE IF task_exc \in {"ClientError", "ClientResponseError", "ContentTypeError", "TimeoutError"}
    THEN "connection"
    ELSE "unknown"

\* the host step is the next step of the flow
HostStepNext ==
    \/ fl_step.type = "progress_done" /\ fl_step.step_id = "host"
    \/ fl_step.type = "form" /\ fl_step.step_id = "host"
\* the host step runs in this step
HostStepRuns == HostStepNext /\ fl_step' # fl_step
UserFormShown == fl_step.type = "form" /\ fl_step.step_id = "user"

C11_ErrorIsLatest ==
    /\ HostStepNext =>
          /\ task_pc = "done" /\ fl_pair_task = "task"
          /\ fl_pair_error = C11_LatestOutcome
    /\ fl_step.type = "create_entry" => C11_LatestOutcome = "None"
    /\ UserFormShown /\ fl_step.error \notin {"none", "required"} =>
          fl_pair_task = "None" /\ fl_step.error = C11_LatestOutcome

C11_RetrySteps ==
    /\ HostStepNext /\ fl_step.type = "progress_done" /\ fl_step' # fl_step =>
          IF fl_pair_error # "None"
          THEN /\ fl_step' = FlowResult("form", "user", fl_pair_error)
               /\ fl_pair_task' = "None"
               /\ fl_entry' = NoEntryData
          ELSE /\ ~UserFormShown'
               /\ fl_step'.type \in {"create_entry", "form"}
    /\ UserFormShown /\ fl_step'.type = "progress" =>
          /\ fl_pair_task = "None" /\ fl_pair_task' = "task"
          /\ task_pc' = "start" /\ task_calls' = {}
          /\ task_ok' = "none" /\ task_exc' = "none"

\* C11: a failed pairing can be retried and the retry decides: the host
\* step with a pairing error shows the user form with that error and
\* clears the held task; the next submitted serial starts a fresh task;
\* when the host or create step runs, _pair_error is the outcome of the
\* latest task, so a confirmed retry goes on to the host form or the
\* entry and not back to the old error.
C11_RetryDecides == []C11_ErrorIsLatest /\ [][C11_RetrySteps]_vars

\* C11 witness: the retry is in the round that confirms while the error of
\* the attempt before is still stored.
C11_Witness ==
    /\ task_pc = "poll_me"
    /\ C3_CicSet(task_inflight.resp)
    /\ fl_pair_error = "pair_failed"
    /\ fl_pair_task = "task"

\* the host answered the probe of the local feed with HTTP 200
C12_Answered200(host) ==
    /\ fl_last_probe.host = host
    /\ fl_last_probe.outcome.kind = "response"
    /\ fl_last_probe.outcome.status = 200

\* C12: every entry the flow creates holds an ip_address, the host stored
\* in _resolved_host, and that host answered the probe of this flow with
\* HTTP 200 (resolved from the serial after pairing, or entered by the
\* user); the create step never runs with _resolved_host empty.
C12_EntryHasProbedHost ==
    /\ fl_step.type = "create_entry" =>
          /\ fl_entry # NoEntryData
          /\ fl_entry.ip_address \notin {NoneStr, <<>>}
          /\ fl_entry.ip_address = fl_resolved_host
          /\ C12_Answered200(fl_entry.ip_address)
    /\ fl_resolved_host \notin {NoneStr, <<>>} => C12_Answered200(fl_resolved_host)
    /\ fl_entry # NoEntryData => fl_step.type = "create_entry"

\* C12 witness: an entry with a host the user entered, after the probes of
\* the names derived from the serial had failed.
C12_Witness ==
    /\ fl_step.type = "create_entry"
    /\ "probe" \in task_calls
    /\ task_idx > Len(task_cands)
    /\ fl_entry.ip_address = <<UpperChar, DigitChar>>

HostFormShown == fl_step.type = "form" /\ fl_step.step_id = "host"
ProbeAnswered200(probe) == probe.outcome.kind = "response" /\ probe.outcome.status = 200

C13_HostFormOnlyUnresolved ==
    /\ HostFormShown =>
          /\ fl_pair_error = "None" /\ task_ok = "True"
          /\ fl_resolved_host = NoneStr
          /\ fl_entry = NoEntryData
          /\ fl_step.error \in {"none", "required", "cannot_connect"}
    /\ fl_last_probe.host # <<>>

C13_HostStep ==
    /\ /\ fl_step.type = "progress_done" /\ fl_step' # fl_step
       /\ fl_pair_error = "None"
       => IF fl_resolved_host \notin {NoneStr, <<>>}
          THEN /\ fl_step'.type = "create_entry"
               /\ fl_entry'.ip_address = fl_resolved_host
               /\ fl_last_probe.host = fl_resolved_host
               /\ ProbeAnswered200(fl_last_probe)
               /\ UNCHANGED <<fl_resolved_host, fl_last_probe>>
          ELSE /\ fl_step' = FlowResult("form", "host", "none")
               /\ UNCHANGED <<fl_resolved_host, fl_last_probe, fl_entry>>
    /\ HostFormShown =>
          IF fl_step'.type = "create_entry"
          THEN /\ fl_last_probe'.host = fl_resolved_host'
               /\ ProbeAnswered200(fl_last_probe')
               /\ fl_entry'.ip_address = fl_resolved_host'
          ELSE /\ HostFormShown'
               /\ fl_step'.error \in {"required", "cannot_connect"}
               /\ UNCHANGED <<fl_resolved_host, fl_entry>>
               /\ fl_step'.error = "required" => UNCHANGED fl_last_probe
               /\ fl_last_probe' # fl_last_probe =>
                     /\ ~ProbeAnswered200(fl_last_probe')
                     /\ fl_step'.error = "cannot_connect"

\* C13: in the host step after a confirmed pairing, a host resolved by the
\* task skips the host form and goes to the entry; otherwise the form is
\* shown, a blank host ("required") or a host whose probe does not answer
\* 200 ("cannot_connect") shows the form again, creates no entry and
\* leaves _resolved_host alone, and only a host whose probe answers 200 is
\* stored and leads to the entry.
C13_HostStepValidates == []C13_HostFormOnlyUnresolved /\ [][C13_HostStep]_vars

\* C13 witness: the host form shown again after a probe answered 401.
C13_Witness ==
    /\ fl_step = FlowResult("form", "host", "cannot_connect")
    /\ fl_last_probe = [host |-> <<DigitChar>>, outcome |-> HttpResponse(401)]
    /\ fl_entry = NoEntryData

C14_NoPollAfterReject ==
    task_pc = "done" /\ task_exc # "none" =>
        /\ "poll_inst" \notin task_calls /\ "poll_me" \notin task_calls
        /\ task_ok = "none"
        /\ fl_pair_error # "None"

C14_PutMeAndRequestPair ==
    LET resp == task_inflight.resp
    IN  /\ task_pc = "put_me" /\ Answered(resp) /\ task_pc' # "put_me" =>
              /\ task_pc' = "request_pair"
              /\ task_inflight'.to = "request_pair"
              /\ task_calls' = task_calls \cup {"request_pair"}
              /\ UNCHANGED <<fl_pair_error, task_ok, task_exc, task_id_token, task_serial>>
        /\ /\ task_pc = "request_pair" /\ task_pc' # "request_pair"
           /\ Answered(resp) /\ resp.status \notin {200, 204}
           => /\ task_pc' = "done"
              /\ fl_pair_error' = "connection"
              /\ task_inflight' = NoFlight
              /\ task_calls' = task_calls
              /\ "poll_inst" \notin task_calls'

\* C14: an answer to PUT /me with any status, 2xx or not, lets the task go
\* on exactly as after a 200: it sends the pairing request with nothing
\* recorded, so polling can confirm; an answer to the pairing request
\* outside 200/204 ends the attempt with "connection", and no poll request
\* is sent in an attempt that ended with an exception.
C14_PutMeTolerated == []C14_NoPollAfterReject /\ [][C14_PutMeAndRequestPair]_vars

\* C14 witness: an attempt ended by a rejected pairing request.
C14_Witness ==
    /\ task_pc = "done"
    /\ task_calls = {"signup", "put_me", "request_pair"}
    /\ task_exc = "ClientResponseError"
    /\ fl_pair_error = "connection"

\* a request of the polling loop that raised or was not answered with 200
C15_Failed(resp) ==
    \/ ~Answered(resp)
    \/ resp.status # 200
    \/ resp.body.type = "invalid"

C15_FailuresPassedOver ==
    LET resp == task_inflight.resp
    IN  /\ task_pc = "poll_inst" /\ C15_Failed(resp) /\ task_pc' # "poll_inst" =>
              /\ task_pc' = "poll_me" /\ task_inflight'.to = "poll_me"
              /\ task_round' = "failed"
              /\ UNCHANGED <<task_ok, task_exc, fl_pair_error, deadline>>
        /\ task_pc = "poll_me" /\ C15_Failed(resp) /\ task_pc' # "poll_me" =>
              /\ task_pc' = "poll_sleep"
              /\ UNCHANGED <<task_ok, task_exc, fl_pair_error, deadline>>
        /\ task_pc = "poll_sleep" /\ task_pc' # "poll_sleep" =>
              /\ now' = now + POLL_INTERVAL_S
              /\ IF now' < deadline
                 THEN task_pc' = "poll_inst" /\ task_inflight'.to = "poll_inst"
                 ELSE task_pc' = "done" /\ task_ok' = "False"
        /\ InPoll /\ ~InPoll' =>
              /\ task_exc' = "none"
              /\ \/ task_ok' = "True"
                 \/ task_ok' = "False" /\ now' >= deadline
        /\ task_pc = "poll_inst" /\ C3_InstallationListed(resp) /\ task_pc' # "poll_inst" =>
              task_ok' = "True"
        /\ task_pc = "poll_me" /\ C3_CicSet(resp) /\ task_pc' # "poll_me" =>
              task_ok' = "True"

\* C15: inside _poll_confirmed an exception or an answer other than 200
\* from /me/installations or /me never ends the loop: after a failed
\* /me/installations, /me is asked in the same round; after a failed /me
\* the task sleeps and the next round starts if the deadline has not
\* passed; the loop is left only with True or, at the deadline, with
\* False; and a confirming answer in any round gives True, whatever failed
\* before.
C15_PollFailuresIgnored == [][C15_FailuresPassedOver]_vars

\* C15 witness: in a later round /me/installations failed and /me, asked in
\* the same round, confirmed.
C15_Witness ==
    /\ task_ok = "True"
    /\ task_round = "failed"
    /\ now > POLL_INTERVAL_S + REQUEST_TIMEOUT_S
    /\ "poll_me" \in task_calls

-----------------------------------------------------------------------------
(* The flow and the setup of the entry it creates                          *)

\* Home Assistant stores the entry the flow created and calls
\* async_setup_entry(hass, entry) with it.
SetupOfCreatedEntry ==
    /\ setup_pc = "idle"
    /\ fl_step.type = "create_entry"
    /\ entry_data' = [ip |-> fl_entry.ip_address, serial |-> fl_entry.cic_serial,
                      cloud_fields |-> TRUE]
    /\ setup_pc' = "start"
    /\ UNCHANGED <<deduped, probe_idx, failed_hosts, last_probe, picked_host,
                   setup_result, hass_data>>
    /\ UNCHANGED not_setup_vars

NextFlowAndSetup ==
    \/ FlowInit
    \/ FlowSubmitUser
    \/ FlowConfigurePair
    \/ FlowProgressDone
    \/ FlowSubmitHost
    \/ TaskBegin
    \/ TaskSignupReturn
    \/ TaskPutMeReturn
    \/ TaskRequestPairReturn
    \/ TaskPollInstallationsReturn
    \/ TaskPollMeReturn
    \/ TaskPollWake
    \/ TaskProbeReturn
    \/ SetupOfCreatedEntry
    \/ PickStart
    \/ PickProbe
    \/ SetupNoHost
    \/ SetupCoordinator
    \/ SetupFinish

SpecFlowAndSetup == InitFlow /\ [][NextFlowAndSetup]_vars

-----------------------------------------------------------------------------
(* Claims about async_setup_entry and the host resolution passes           *)

\* the entry gives no candidate: neither ip_address nor cic_serial
C16_NoCandidate ==
    /\ entry_data.ip \in {NoneStr, <<>>}
    /\ \/ entry_data.serial = NoneStr
       \/ \A i \in 1..Len(entry_data.serial) : entry_data.serial[i] = SpaceChar
\* the pass is over and no probe of it answered 200
C16_NoneAnswered ==
    /\ setup_pc \notin {"start", "probing"}
    /\ ~(last_probe.outcome.kind = "response" /\ last_probe.outcome.status = 200)

\* C16: when the entry has neither ip_address nor cic_serial, or no
\* candidate answers the probe with 200, async_setup_entry returns False
\* and leaves nothing behind: no coordinator, no cloud client, no
\* forwarded platform, no update listener.
C16_SetupFailsCleanly ==
    /\ C16_NoCandidate /\ setup_pc # "start" => deduped = <<>> /\ last_probe = NoProbe
    /\ C16_NoneAnswered =>
          /\ picked_host = NoneStr
          /\ hass_data = {}
          /\ setup_result \in {"none", "False"}
          /\ setup_pc = "done" => setup_result = "False"
    /\ setup_result = "False" => C16_NoneAnswered /\ hass_data = {}

\* C16 witness: setup returned False after every candidate of an entry
\* with an ip_address and a serial had been probed.
C16_Witness ==
    /\ setup_pc = "done"
    /\ setup_result = "False"
    /\ Len(deduped) >= 3
    /\ probe_idx > Len(deduped)
    /\ entry_data.ip # NoneStr

-----------------------------------------------------------------------------
(* Claims about the token manager                                          *)

\* _ensure_token runs in this step
EnsureRuns == cl_pc = "ensure" /\ cl_pc' # "ensure"

C17_EnsureStep ==
    /\ EnsureRuns =>
          /\ UNCHANGED <<cl_id_token, cl_refresh_token, cl_issued, cl_inflight,
                         cl_sends, cl_refreshes>>
          /\ cl_inflight = NoRequest
          /\ IF cl_id_token # 0
             THEN cl_pc' = "send" /\ cl_outcome' = NoOutcome
             ELSE IF cl_refresh_token # 0
             THEN cl_pc' = "refresh" /\ cl_after_refresh' = "send" /\ cl_outcome' = NoOutcome
             ELSE /\ cl_pc' = "idle"
                  /\ cl_outcome' = Raised("RuntimeError", 0, "_ensure_token")
    \* the refresh _ensure_token asked for: one request, then back to the caller
    /\ cl_pc = "refresh" /\ cl_after_refresh = "send" /\ cl_pc' # "refresh" =>
          /\ cl_pc' = "refresh_wait"
          /\ cl_refreshes' = cl_refreshes + 1
          /\ cl_inflight'.to = "token_service"
          /\ cl_id_token = 0
    /\ cl_pc = "refresh_wait" /\ cl_after_refresh = "send" /\ cl_pc' # "refresh_wait" =>
          /\ cl_refreshes' = cl_refreshes
          /\ cl_pc' \in {"send", "idle"}
          /\ cl_pc' = "idle" => cl_outcome'.kind = "raised" /\ cl_outcome'.from = "token_service"

\* C17: _ensure_token returns without a request when an access token is
\* held; with no access token and a refresh token it makes exactly one
\* refresh and then returns or raises the error of the refresh; with no
\* token at all it raises RuntimeError, sends nothing and leaves the
\* tokens as they are.
C17_EnsureTokenLazy ==
    /\ [][C17_EnsureStep]_vars
    /\ [](cl_outcome.from = "_ensure_token" =>
            cl_id_token = 0 /\ cl_refresh_token = 0 /\ cl_sends = 0 /\ cl_refreshes = 0)
    /\ [](cl_refresh_why # "token_held")

\* C17 witness: a call that started without an access token, refreshed
\* once and is about to send its request with the new token.
C17_Witness ==
    /\ cl_pc = "send"
    /\ cl_sends = 0
    /\ cl_refreshes = 1
    /\ cl_refresh_why = "no_token"
    /\ cl_id_token = 2

-----------------------------------------------------------------------------
(* Claims about the host resolution passes                                 *)

FirstIndex(s, x) ==
    CHOOSE i \in 1..Len(s) : s[i] = x /\ \A j \in 1..(i - 1) : s[j] # x

\* ded is cands without its duplicates, each host where it comes first
C18_FirstOccurrences(cands, ded) ==
    /\ \A i, j \in 1..Len(ded) : i # j => ded[i] # ded[j]
    /\ {ded[i] : i \in 1..Len(ded)} = {cands[i] : i \in 1..Len(cands)}
    /\ \A i, j \in 1..Len(ded) :
          i < j => FirstIndex(cands, ded[i]) < FirstIndex(cands, ded[j])

\* a pass over cl at index idx: the hosts before idx were probed, once each,
\* and failed; nothing from idx on was probed, but cl[idx] when it was
\* returned
C18_SetupPass ==
    setup_pc \notin {"idle", "start"} =>
        /\ C18_FirstOccurrences(EntryCandidates(entry_data), deduped)
        /\ probe_idx \in 1..(Len(deduped) + 1)
        /\ failed_hosts = {deduped[j] : j \in 1..(probe_idx - 1)}
        /\ Cardinality(failed_hosts) = probe_idx - 1
        /\ picked_host # NoneStr =>
              /\ probe_idx <= Len(deduped)
              /\ picked_host = deduped[probe_idx]
              /\ last_probe.host = picked_host /\ ProbeAnswered200(last_probe)
        /\ setup_pc # "probing" /\ picked_host = NoneStr => probe_idx = Len(deduped) + 1
        /\ setup_pc = "probing" => probe_idx <= Len(deduped)

C18_FlowPass ==
    task_ok = "True" =>
        /\ C18_FirstOccurrences(
               SerialCandidates(NormalizeSerial(Strip(task_serial))), task_cands)
        /\ task_idx \in 1..(Len(task_cands) + 1)
        /\ task_pc = "resolve" => task_idx <= Len(task_cands)
        /\ task_pc = "done" /\ task_idx <= Len(task_cands) =>
              /\ fl_resolved_host = task_cands[task_idx]
              /\ fl_last_probe.host = fl_resolved_host /\ ProbeAnswered200(fl_last_probe)
        /\ task_pc = "done" /\ task_idx > Len(task_cands) =>
              fl_resolved_host = NoneStr \/ fl_step.type = "create_entry"

C18_SetupProbe ==
    /\ setup_pc = "probing" /\ (probe_idx' # probe_idx \/ setup_pc' # "probing") =>
          /\ last_probe'.host = deduped[probe_idx]
          /\ UNCHANGED deduped
          /\ IF ProbeAnswered200(last_probe')
             THEN /\ setup_pc' = "picked" /\ picked_host' = deduped[probe_idx]
                  /\ probe_idx' = probe_idx
             ELSE /\ probe_idx' = probe_idx + 1
                  /\ IF probe_idx < Len(deduped)
                     THEN setup_pc' = "probing"
                     ELSE setup_pc' = "picked" /\ picked_host' = NoneStr
    /\ setup_pc # "probing" => last_probe' = last_probe /\ failed_hosts' = failed_hosts

C18_FlowProbe ==
    /\ task_pc = "resolve" /\ (task_idx' # task_idx \/ task_pc' # "resolve") =>
          /\ fl_last_probe'.host = task_cands[task_idx]
          /\ UNCHANGED task_cands
          /\ IF ProbeAnswered200(fl_last_probe')
             THEN /\ task_pc' = "done" /\ fl_resolved_host' = task_cands[task_idx]
                  /\ task_idx' = task_idx
             ELSE /\ task_idx' = task_idx + 1
                  /\ IF task_idx < Len(task_cands)
                     THEN task_pc' = "resolve"
                     ELSE task_pc' = "done" /\ fl_resolved_host' = NoneStr
    /\ task_pc # "resolve" /\ fl_last_probe' # fl_last_probe => HostFormShown

\* C18: in a host resolution pass, of the setup and of the flow, the
\* candidates are probed without their duplicates (each kept where it
\* comes first), every host at most once and in order; the pass ends at
\* the first host that answers 200 and probes nothing after it; a probe
\* that fails by network error, timeout or another status only moves the
\* pass to the next candidate, and None is returned only when all were
\* tried.
C18_PassProbesOnce ==
    /\ [](C18_SetupPass /\ C18_FlowPass)
    /\ [][C18_SetupProbe /\ C18_FlowProbe]_vars

\* C18 witness: the entry holds an ip_address equal to its serial; the
\* setup pass probed that name once, it failed, and the next name
\* answered 200.
C18_Witness ==
    /\ entry_data.ip = <<DigitChar>>
    /\ entry_data.serial = <<DigitChar>>
    /\ deduped = <<(<<DigitChar>>), <<DigitChar, DotLocal>>>>
    /\ failed_hosts = {<<DigitChar>>}
    /\ picked_host = <<DigitChar, DotLocal>>
    /\ task_idx > Len(task_cands)

====
